---- MODULE Spec2Model ----
(***************************************************************************)
(* A model of mtga_deck_builder.py: build_deck (filtering, ordering,       *)
(* first-fit accumulation, land allocation, truncation) and                *)
(* parse_mtga_collection (extraction of the owned cards from Player.log).  *)
(* Strings are the Python strings; their order (str.__lt__) is given by    *)
(* the position in TypeOrder / NameOrder.                                  *)
(***************************************************************************)
EXTENDS Integers, Sequences, FiniteSets, TLC

VARIABLES
    \* ---- build_deck: arguments
    card_pool,          \* DataFrame rows, in row order
    owned_cards,        \* list of owned names, one entry per copy
    selected_keywords,  \* list of keywords ticked in the UI
    selected_colors,    \* list of colour letters (get_selected_colors)
    selected_format,    \* "Any" or a format name
    \* ---- build_deck: locals
    pc,                 \* position in build_deck
    filtered,           \* the filtered, sorted rows
    idx,                \* position of the for loop over filtered (1-based)
    card_counts,        \* Counter, in insertion order: <<[name, count], ...>>
    suggested_cards,    \* list of <<name, count>>
    deck,               \* list of names (spells, then lands)
    colors,             \* value_counts(): colour -> number of rows
    pending,            \* colours the land loop has not processed yet
    lands,              \* one record per iteration of the land loop
    result,             \* the returned deck, deck[:60]
    \* ---- parse_mtga_collection
    log_blocks,         \* the GetPlayerCardsV3 blocks of the log, in file order
    ppc,                \* position in parse_mtga_collection
    blk,                \* index of the block being read
    ent,                \* index of the entry of the block being read
    owned_out,          \* owned_cards being built
    found_data          \* found_data flag

bvars == <<card_pool, owned_cards, selected_keywords, selected_colors,
           selected_format, pc, filtered, idx, card_counts, suggested_cards,
           deck, colors, pending, lands, result>>
pvars == <<log_blocks, ppc, blk, ent, owned_out, found_data>>
vars == <<bvars, pvars>>

----------------------------------------------------------------------------
(* Bounds of the model *)

\* rows of ExtraCards a pool may hold (a prefix of that length)
MaxExtra == 7
\* entries of a "cards" list
MaxEntries == 3
\* GetPlayerCardsV3 lines of a log
MaxBlocks == 2

(* Program constants *)

\* `>= 36` : the cutoff of the accumulation loop
SpellCutoff == 36
\* min(4, ...) : the copy limit
CopyLimit == 4
\* mutant of DeckSize: a deck size that is one too large
DeckSizeOffByOne == 60 + 1

\* 60 - len(deck) and deck[:60] : the deck size
DeckSize == 60

----------------------------------------------------------------------------
(* Python helpers *)

Min(a, b) == IF a <= b THEN a ELSE b
Max(a, b) == IF a >= b THEN a ELSE b

Range(s) == {s[i] : i \in DOMAIN s}

RECURSIVE SeqSum(_)
SeqSum(s) == IF s = <<>> THEN 0 ELSE Head(s) + SeqSum(Tail(s))

RECURSIVE Repeat(_, _)
\* [x] * n
Repeat(x, n) == IF n <= 0 THEN <<>> ELSE <<x>> \o Repeat(x, n - 1)

Reverse(s) == [i \in 1..Len(s) |-> s[Len(s) + 1 - i]]

\* list.count(x)
CountOf(s, x) == Cardinality({i \in DOMAIN s : s[i] = x})

\* s[:n]
Take(s, n) == SubSeq(s, 1, Min(n, Len(s)))

\* str.lower() on the strings of the model
Lower(s) ==
    CASE s = "Burn" -> "burn"
      [] s = "Haste" -> "haste"
      [] OTHER -> s

\* the order of str on the type labels of the model
TypeOrder == <<"Artifact", "Creature", "Instant", "Sorcery">>
TypeRank(t) == CHOOSE i \in DOMAIN TypeOrder : TypeOrder[i] = t

\* the order of str on the card names of the model
NameOrder == <<"Bonesplitter", "Duress", "Elvish Mystic", "Giant Growth",
               "Goblin Guide", "Healer's Hawk", "Lava Axe", "Llanowar Elves",
               "Opt", "Ornithopter", "Rampant Growth", "Shock">>
NameRank(n) == CHOOSE i \in DOMAIN NameOrder : NameOrder[i] = n

----------------------------------------------------------------------------
(* The card database: rows of the DataFrame of load_card_database.  A row  *)
(* is what generate_card_data writes: name, type, color, keywords, format  *)
(* (the legal formats joined by ",", kept here as the list that is joined).*)
(* color is colors[0] of the catalog, a letter, or "Colorless"; a sample   *)
(* file written by hand may spell colours, keywords and formats otherwise. *)

Card(n, t, c, k, f) == [name |-> n, type |-> t, color |-> c, keywords |-> k, format |-> f]

AllFour == <<"burn", "haste", "ramp", "lifelink">>

\* rows of which a pool holds any subset
CoreCards ==
    << Card("Shock", "Instant", "R", <<"burn">>, <<"standard", "historic">>),
       Card("Shock", "Instant", "Red", <<"Burn", "Haste">>, <<"Standard">>),
       Card("Ornithopter", "Artifact", "Colorless", AllFour, <<"Standard", "Historic">>),
       Card("Llanowar Elves", "Creature", "G", <<"burn", "haste", "ramp">>, <<"standard">>),
       Card("Lava Axe", "Sorcery", "R", AllFour, <<"Standard">>) >>

\* rows of which a pool holds a prefix
ExtraCards ==
    << Card("Elvish Mystic", "Creature", "Green", AllFour, <<"Standard">>),
       Card("Giant Growth", "Instant", "Green", AllFour, <<"Historic">>),
       Card("Goblin Guide", "Creature", "Red", AllFour, <<"Standard">>),
       Card("Rampant Growth", "Sorcery", "Green", AllFour, <<"Standard">>),
       Card("Opt", "Instant", "Blue", AllFour, <<"Standard">>),
       Card("Healer's Hawk", "Creature", "Green", AllFour, <<"Standard">>),
       Card("Duress", "Sorcery", "Red", AllFour, <<"Standard">>),
       Card("Bonesplitter", "Artifact", "Colorless", AllFour, <<"Standard">>),
       Card("Giant Growth", "Instant", "G", <<"haste">>, <<"standard">>) >>

RECURSIVE Pick(_, _, _)
\* the rows of s whose index is in S, in the order of s
Pick(s, S, i) ==
    IF i > Len(s) THEN <<>>
    ELSE (IF i \in S THEN <<s[i]>> ELSE <<>>) \o Pick(s, S, i + 1)

\* the pools of the model: a subset of CoreCards followed by a prefix of
\* ExtraCards, in that row order or in the reverse one; never empty
PoolChoices ==
    { IF rev THEN Reverse(p) ELSE p :
        p \in { Pick(CoreCards, S, 1) \o SubSeq(ExtraCards, 1, k) :
                  S \in SUBSET (DOMAIN CoreCards),
                  k \in 0..Min(MaxExtra, Len(ExtraCards)) } \ {<<>>},
        rev \in BOOLEAN }

\* the owned lists of the model (the return value of parse_mtga_collection)
OwnedChoices ==
    { <<>>,
      <<"Shock", "Shock", "Ornithopter", "Black Lotus">>,
      Repeat("Lava Axe", 5) \o <<"Elvish Mystic", "Llanowar Elves", "Llanowar Elves">> }

\* keyword_vars: never empty, build_deck_from_ui returns before the call
KeywordChoices == { <<"burn">>, <<"haste", "ramp">>, AllFour }

color_reverse_map ==
    [c \in {"White", "Blue", "Black", "Red", "Green", "Colorless"} |->
        CASE c = "White" -> "W" [] c = "Blue" -> "U" [] c = "Black" -> "B"
          [] c = "Red" -> "R" [] c = "Green" -> "G" [] OTHER -> "C"]

\* get_selected_colors: the letters of the colours ticked
get_selected_colors(ticked) == [i \in DOMAIN ticked |-> color_reverse_map[ticked[i]]]

\* the colours ticked and the format chosen in format_dropdown
FilterChoices ==
    { <<get_selected_colors(<<>>), "Any">>,
      <<get_selected_colors(<<"Red", "Green">>), "Any">>,
      <<get_selected_colors(<<>>), "Standard">> }

----------------------------------------------------------------------------
(* build_deck: the expressions of the function *)

\* kw.lower() in [k.lower() for k in card.keywords]
HasKeyword(card, kw) ==
    \E i \in DOMAIN card.keywords : Lower(card.keywords[i]) = Lower(kw)

\* filtered['format'].str.contains(selected_format), on whole format names
FormatContains(card, fmt) == \E i \in DOMAIN card.format : card.format[i] = fmt

\* the three filters, each applied only when it is active
FilterPool(pool, kws, cols, fmt) ==
    LET byKw  == IF kws # <<>>
                 THEN SelectSeq(pool, LAMBDA c : \E i \in DOMAIN kws : HasKeyword(c, kws[i]))
                 ELSE pool
        byCol == IF cols # <<>>
                 THEN SelectSeq(byKw, LAMBDA c : c.color \in Range(cols))
                 ELSE byKw
    IN  IF fmt # "Any"
        THEN SelectSeq(byCol, LAMBDA c : FormatContains(c, fmt))
        ELSE byCol

RECURSIVE InsertByType(_, _)
\* r inserted behind the rows whose type is not greater than its own
InsertByType(s, r) ==
    IF s = <<>> THEN <<r>>
    ELSE IF TypeRank(s[Len(s)].type) <= TypeRank(r.type) THEN Append(s, r)
    ELSE Append(InsertByType(SubSeq(s, 1, Len(s) - 1), r), s[Len(s)])

RECURSIVE SortFrom(_, _, _)
SortFrom(acc, s, i) ==
    IF i > Len(s) THEN acc ELSE SortFrom(InsertByType(acc, s[i]), s, i + 1)

\* sort_values(by="type"): the key is the type alone.  The default kind is
\* quicksort, which numpy runs as an insertion sort on at most 16 elements:
\* rows of equal type keep their row order.  On larger frames the order of
\* equal types is unspecified; the pools of the model come in both row orders.
SortByType(s) == SortFrom(<<>>, s, 1)

\* sum(1 for kw in selected_keywords if kw.lower() in [...])
Synergy(card, kws) == Cardinality({i \in DOMAIN kws : HasKeyword(card, kws[i])})

\* count = min(4, max(1, synergy))
CopyCount(synergy) == Min(CopyLimit, Max(1, synergy))

\* mutant of FinalCount: the owned count is not taken into account
FinalCountIgnoringOwned(count, owned_count) == Min(count, CopyLimit)

\* final_count = min(count, owned_count, 4)
FinalCount(count, owned_count) == Min(Min(count, owned_count), CopyLimit)

\* the copies one iteration of the loop adds for card: final_count when the
\* card is owned (card.name in owned_names), count when it is not
AddedCopies(card, kws, owned) ==
    IF card.name \in Range(owned)
    THEN FinalCount(CopyCount(Synergy(card, kws)), CountOf(owned, card.name))
    ELSE CopyCount(Synergy(card, kws))

\* sum(card_counts.values())
SumCounts(cc) == SeqSum([i \in DOMAIN cc |-> cc[i].count])

\* card_counts[name] += n
CounterAdd(cc, name, n) ==
    IF \E i \in DOMAIN cc : cc[i].name = name
    THEN [i \in DOMAIN cc |->
            IF cc[i].name = name THEN [cc[i] EXCEPT !.count = @ + n] ELSE cc[i]]
    ELSE Append(cc, [name |-> name, count |-> n])

\* mutant of ReachedCutoff: > instead of >=
ReachedCutoffStrict(total) == total > SpellCutoff

\* if sum(card_counts.values()) >= 36: break
ReachedCutoff(total) == total >= SpellCutoff

RECURSIVE ExpandCounts(_)
\* for name, count in card_counts.items(): deck.extend([name] * count)
ExpandCounts(cc) ==
    IF cc = <<>> THEN <<>>
    ELSE Repeat(Head(cc).name, Head(cc).count) \o ExpandCounts(Tail(cc))

\* filtered[filtered['name'].isin(deck)]["color"].value_counts().to_dict()
ValueCounts(rows, d) ==
    LET in == {i \in DOMAIN rows : rows[i].name \in Range(d)}
    IN  [c \in {rows[i].color : i \in in} |->
            Cardinality({i \in in : rows[i].color = c})]

RECURSIVE SumOver(_, _)
SumOver(f, D) ==
    IF D = {} THEN 0
    ELSE SumOver(f, D \ {CHOOSE x \in D : TRUE}) + f[CHOOSE x \in D : TRUE]

\* sum(colors.values())
TotalColorCards(cs) == SumOver(cs, DOMAIN cs)

\* the conditional expression of line 119
LandName(color) ==
    IF color = "Green" THEN "Forest"
    ELSE IF color = "Red" THEN "Mountain"
    ELSE IF color = "White" THEN "Plains"
    ELSE IF color = "Blue" THEN "Island"
    ELSE "Swamp"

\* (count, total, slots) for which the double (count / total) * slots is not
\* the exact half: it lies just below it, or just above it
FloatBelowHalf == { <<7, 10, 45>>, <<14, 20, 45>>, <<3, 22, 55>>, <<15, 22, 11>>,
                    <<15, 26, 13>>, <<17, 28, 42>>, <<21, 30, 45>>, <<28, 40, 45>> }
FloatAboveHalf == { <<21, 38, 19>> }

\* round((count / total) * slots): Python 3 rounds a half to the even integer;
\* exact for total <= 40 and slots <= 60 with the two tables above
PyRound(count, total, slots) ==
    LET q == (count * slots) \div total
        r == (count * slots) % total
    IN  IF 2 * r < total THEN q
        ELSE IF 2 * r > total THEN q + 1
        ELSE IF <<count, total, slots>> \in FloatBelowHalf THEN q
        ELSE IF <<count, total, slots>> \in FloatAboveHalf THEN q + 1
        ELSE IF q % 2 = 0 THEN q ELSE q + 1

\* mutant of LandSlots: the slots left by the spells, the same for every colour
LandSlotsOfSpells(d) == DeckSize - SumCounts(card_counts)

\* 60 - len(deck), with the deck as it is when the colour is processed
LandSlots(d) == DeckSize - Len(d)

\* land_amount = round((count / total_color_cards) * (60 - len(deck)))
LandAmount(count, total, d) == PyRound(count, total, LandSlots(d))

----------------------------------------------------------------------------
(* build_deck: the state machine *)

NoColors == [c \in {} |-> 0]

\* the locals of build_deck before its first statement
BuildLocalsInit ==
    /\ pc = "start"
    /\ filtered = <<>>
    /\ idx = 1
    /\ card_counts = <<>>
    /\ suggested_cards = <<>>
    /\ deck = <<>>
    /\ colors = NoColors
    /\ pending = {}
    /\ lands = <<>>
    /\ result = <<>>

\* parse_mtga_collection is not running
ParseIdle ==
    /\ log_blocks = <<>>
    /\ ppc = "idle"
    /\ blk = 1
    /\ ent = 1
    /\ owned_out = <<>>
    /\ found_data = FALSE

\* build_deck_from_ui calls build_deck(card_db, owned, keywords, colors, format)
Init ==
    /\ card_pool \in PoolChoices
    /\ owned_cards \in OwnedChoices
    /\ selected_keywords \in KeywordChoices
    /\ \E f \in FilterChoices : selected_colors = f[1] /\ selected_format = f[2]
    /\ BuildLocalsInit
    /\ ParseIdle

BuildArgs == <<card_pool, owned_cards, selected_keywords, selected_colors, selected_format>>

\* lines 78-89: the filters, then the sort
FilterAndSort ==
    /\ pc = "start"
    /\ filtered' = SortByType(FilterPool(card_pool, selected_keywords,
                                         selected_colors, selected_format))
    /\ idx' = 1
    /\ pc' = "loop"
    /\ UNCHANGED <<BuildArgs, card_counts, suggested_cards, deck, colors,
                   pending, lands, result, pvars>>

\* lines 96-109: one iteration of the loop over filtered.itertuples()
LoopCard ==
    /\ pc = "loop"
    /\ idx <= Len(filtered)
    /\ LET card  == filtered[idx]
           owned == card.name \in Range(owned_cards)
           cc    == CounterAdd(card_counts, card.name,
                               AddedCopies(card, selected_keywords, owned_cards))
       IN  /\ card_counts' = cc
           /\ suggested_cards' =
                 IF owned THEN suggested_cards
                 ELSE Append(suggested_cards,
                             <<card.name, CopyCount(Synergy(card, selected_keywords))>>)
           /\ IF ReachedCutoff(SumCounts(cc))
              THEN pc' = "deck" /\ idx' = idx
              ELSE pc' = "loop" /\ idx' = idx + 1
    /\ UNCHANGED <<BuildArgs, filtered, deck, colors, pending, lands, result, pvars>>

\* the loop ends because filtered is exhausted
LoopEnd ==
    /\ pc = "loop"
    /\ idx > Len(filtered)
    /\ pc' = "deck"
    /\ UNCHANGED <<BuildArgs, filtered, idx, card_counts, suggested_cards, deck,
                   colors, pending, lands, result, pvars>>

\* lines 111-116: the spell list and the colour distribution
ExpandDeck ==
    /\ pc = "deck"
    /\ deck' = ExpandCounts(card_counts)
    /\ colors' = ValueCounts(filtered, deck')
    /\ pending' = DOMAIN colors'
    /\ pc' = "lands"
    /\ UNCHANGED <<BuildArgs, filtered, idx, card_counts, suggested_cards, lands,
                   result, pvars>>

\* lines 117-121: one iteration of the loop over colors.items(); value_counts
\* lists the colours by descending count, colours of equal count in any order
AddLand ==
    /\ pc = "lands"
    /\ TotalColorCards(colors) > 0
    /\ \E color \in pending :
         /\ \A other \in pending : colors[other] <= colors[color]
         /\ LET land_name   == LandName(color)
                land_amount == LandAmount(colors[color], TotalColorCards(colors), deck)
            IN  /\ deck' = deck \o Repeat(land_name, land_amount)
                /\ lands' = Append(lands, [color |-> color, land_name |-> land_name,
                                           land_amount |-> land_amount,
                                           count |-> colors[color],
                                           total |-> TotalColorCards(colors),
                                           deck_len |-> Len(deck)])
         /\ pending' = pending \ {color}
    /\ UNCHANGED <<BuildArgs, pc, filtered, idx, card_counts, suggested_cards,
                   colors, result, pvars>>

\* line 123: return deck[:60], suggested_cards
ReturnDeck ==
    /\ pc = "lands"
    /\ pending = {} \/ TotalColorCards(colors) = 0
    /\ result' = Take(deck, DeckSize)
    /\ pc' = "done"
    /\ UNCHANGED <<BuildArgs, filtered, idx, card_counts, suggested_cards, deck,
                   colors, pending, lands, pvars>>

Next ==
    \/ FilterAndSort
    \/ LoopCard
    \/ LoopEnd
    \/ ExpandDeck
    \/ AddLand
    \/ ReturnDeck

Spec == Init /\ [][Next]_vars

----------------------------------------------------------------------------
(* Vocabulary of the properties of build_deck *)

BasicLands == {"Forest", "Mountain", "Plains", "Island", "Swamp"}

\* the rows the loop has processed: the first Processed rows of filtered
Processed == IF pc = "loop" THEN idx - 1 ELSE Min(idx, Len(filtered))

\* the copies the first k rows of filtered add
RunningTotal(k) ==
    SeqSum([i \in 1..k |-> AddedCopies(filtered[i], selected_keywords, owned_cards)])

UniqueNames(pool) == \A i, j \in DOMAIN pool : pool[i].name = pool[j].name => i = j

\* the names in the Counter
CountedNames == {card_counts[i].name : i \in DOMAIN card_counts}

\* the unowned rows among the first k, as suggestions, in order
RECURSIVE SuggestionsOf(_)
SuggestionsOf(k) ==
    IF k = 0 THEN <<>>
    ELSE IF filtered[k].name \in Range(owned_cards) THEN SuggestionsOf(k - 1)
    ELSE Append(SuggestionsOf(k - 1),
                <<filtered[k].name, CopyCount(Synergy(filtered[k], selected_keywords))>>)

\* some statement of build_deck can execute
StepEnabled ==
    \/ pc = "start"
    \/ pc = "loop" /\ idx <= Len(filtered)
    \/ pc = "loop" /\ idx > Len(filtered)
    \/ pc = "deck"
    \/ pc = "lands" /\ TotalColorCards(colors) > 0 /\ pending # {}
    \/ pc = "lands" /\ (pending = {} \/ TotalColorCards(colors) = 0)

\* a bound on the statements build_deck has still to execute
Measure ==
    CASE pc = "start" -> 2 * Len(card_pool) + 4
      [] pc = "loop"  -> (Len(filtered) + 1 - idx) + Len(filtered) + 3
      [] pc = "deck"  -> Len(filtered) + 2
      [] pc = "lands" -> Cardinality(pending) + 1
      [] OTHER        -> 0

\* C1: build_deck terminates (before the return some statement can always
\* execute, and every statement lowers a bound that is never negative), and
\* the deck it returns holds at most 60 cards.
C1_DeckAtMost60 ==
    /\ [](pc = "done" => Len(result) <= 60)
    /\ [](pc # "done" => StepEnabled)
    /\ [](Measure >= 0)
    /\ [][Measure' < Measure]_vars

\* a returned deck of spells and lands that fills the 60 slots
C1_Witness == pc = "done" /\ Len(result) = 60 /\ card_counts # <<>> /\ lands # <<>>

\* C2: for a pool of unique names, no non-land name is in the returned deck
\* more than 4 times, nor more often than it is owned when it is owned.
C2_CopyLimits ==
    (pc = "done" /\ UniqueNames(card_pool)) =>
        \A n \in Range(result) \ BasicLands :
            /\ CountOf(result, n) <= 4
            /\ CountOf(owned_cards, n) >= 1 =>
                 CountOf(result, n) <= Min(CountOf(owned_cards, n), 4)

\* a card of synergy 4 owned once is in the deck once, and a card of synergy
\* 4 owned five times is in it four times
C2_Witness ==
    /\ pc = "done" /\ UniqueNames(card_pool)
    /\ \E i \in DOMAIN filtered :
         /\ Synergy(filtered[i], selected_keywords) = 4
         /\ CountOf(owned_cards, filtered[i].name) = 1
         /\ CountOf(result, filtered[i].name) = 1
    /\ \E i \in DOMAIN filtered :
         /\ Synergy(filtered[i], selected_keywords) = 4
         /\ CountOf(owned_cards, filtered[i].name) = 5
         /\ CountOf(result, filtered[i].name) = 4

\* C8: the loop takes the rows of filtered in order and stops at the first row
\* at which the running total is 36 or more: the rows before the last one
\* taken left the total below 36, the deck returned and the Counter hold the
\* names of the rows taken and no other card, the suggestions are the unowned rows taken, and a
\* row is not taken only when the total had reached 36 before it.
C8_FirstFit ==
    pc = "done" =>
        /\ Range(result) \ BasicLands = {filtered[i].name : i \in 1..Processed}
        /\ \A k \in 0..(Processed - 1) : RunningTotal(k) < 36
        /\ SumCounts(card_counts) = RunningTotal(Processed)
        /\ CountedNames = {filtered[i].name : i \in 1..Processed}
        /\ suggested_cards = SuggestionsOf(Processed)
        /\ Processed < Len(filtered) => RunningTotal(Processed) >= 36
        /\ \A i \in DOMAIN card_counts : card_counts[i].count >= 1

\* the total is exactly 36 at the cutoff, and a row behind the cutoff, of
\* higher synergy than a row taken, is neither in the deck nor suggested
C8_Witness ==
    /\ pc = "done"
    /\ SumCounts(card_counts) = 36
    /\ \E j \in (Processed + 1)..Len(filtered) : \E i \in 1..Processed :
         /\ Synergy(filtered[j], selected_keywords) > Synergy(filtered[i], selected_keywords)
         /\ filtered[j].name \notin Range(result)
         /\ \A m \in DOMAIN suggested_cards : suggested_cards[m][1] # filtered[j].name

\* C10: deck[:60] removes nothing: the spells are at most 35 while the loop
\* runs and at most 39 after it, every land amount is at most the slots free
\* when its colour is processed, the deck never holds more than 60 entries,
\* and the deck returned is the whole deck.
C10_TruncationRemovesNothing ==
    /\ SumCounts(card_counts) <= 39
    /\ pc = "loop" => SumCounts(card_counts) <= 35
    /\ \A i \in DOMAIN lands : lands[i].land_amount <= 60 - lands[i].deck_len
    /\ Len(deck) <= 60
    /\ pc = "done" => result = deck

\* 39 spells, and lands of two colours whose amounts rounded up
C10_Witness ==
    /\ pc = "done"
    /\ SumCounts(card_counts) = 39
    /\ Len(lands) >= 2
    /\ Len(result) = Len(deck)

\* C3: when the accumulation reaches the cutoff of 36 copies the returned
\* deck holds exactly 60 cards, whatever the number of colours.
C3_FullDeck ==
    pc = "done" => (SumCounts(card_counts) >= 36 => Len(result) = 60)

\* the rows of filtered whose name is in the deck: the chosen spells
ChosenRows == {i \in DOMAIN filtered : filtered[i].name \in CountedNames}

\* the colour a colour tag of the database stands for: the tag is a letter
\* of color_reverse_map, or the colour spelled out
ColorOfTag(tag) ==
    IF \E c \in DOMAIN color_reverse_map : color_reverse_map[c] = tag
    THEN CHOOSE c \in DOMAIN color_reverse_map : color_reverse_map[c] = tag
    ELSE tag

\* the fixed mapping of colours to basic lands
BasicLandOf ==
    [c \in {"Green", "Red", "White", "Blue", "Black"} |->
        CASE c = "Green" -> "Forest" [] c = "Red" -> "Mountain"
          [] c = "White" -> "Plains" [] c = "Blue" -> "Island" [] OTHER -> "Swamp"]

\* C4: when every chosen spell has the same colour X of the five, the deck
\* returned is the spells followed by 60 - |spells| copies of the basic land
\* of X, and holds no other land.
C4_SingleColorLands ==
    pc = "done" =>
        \A X \in DOMAIN BasicLandOf :
            (ChosenRows # {} /\ \A i \in ChosenRows : ColorOfTag(filtered[i].color) = X)
                => result = ExpandCounts(card_counts)
                              \o Repeat(BasicLandOf[X], 60 - SumCounts(card_counts))

\* The statement of C4 for the rows whose colour tag is the colour spelled
\* out ("Green", not "G"): for those the lands are the ones of the mapping.
SpelledColorLands ==
    pc = "done" =>
        \A X \in DOMAIN BasicLandOf :
            (ChosenRows # {} /\ \A i \in ChosenRows : filtered[i].color = X)
                => result = ExpandCounts(card_counts)
                              \o Repeat(BasicLandOf[X], 60 - SumCounts(card_counts))

\* C5: a Colorless spell adds no land, and is not counted in the total the
\* land shares are divided by.
C5_ColorlessExcluded ==
    \A i \in DOMAIN lands :
        /\ lands[i].color # "Colorless"
        /\ lands[i].total = Cardinality({j \in ChosenRows : filtered[j].color # "Colorless"})

\* C7: every colour receives round(c / T * slots) lands for the one slot
\* count slots = 60 - |spells|, and so the lands differ in total from slots
\* by at most the number of colours.
C7_FixedSlots ==
    pc = "done" =>
        LET slots == 60 - SumCounts(card_counts)
            total == SeqSum([i \in DOMAIN lands |-> lands[i].land_amount])
        IN  /\ \A i \in DOMAIN lands :
                 lands[i].land_amount = PyRound(lands[i].count, lands[i].total, slots)
            /\ lands # <<>> =>
                 /\ total - slots <= Len(lands)
                 /\ slots - total <= Len(lands)

\* C9: the rows are processed in ascending order of type and, for equal
\* types, in ascending order of name.
C9_SortedByTypeThenName ==
    pc # "start" =>
        \A i, j \in DOMAIN filtered :
            i < j =>
                \/ TypeRank(filtered[i].type) < TypeRank(filtered[j].type)
                \/ /\ filtered[i].type = filtered[j].type
                   /\ NameRank(filtered[i].name) <= NameRank(filtered[j].name)

----------------------------------------------------------------------------
(* parse_mtga_collection.  The log is kept as its GetPlayerCardsV3 lines,  *)
(* in file order; a block is what json.loads makes of the lines behind     *)
(* such a line: it raises JSONDecodeError, or yields a value without     *)
(* .get (json_ok = FALSE: both are caught and the scan goes on), or it     *)
(* yields an object whose "cards" list is the block's cards.  An entry of  *)
(* the list is an object {name, amount} (kind "object"), a value that is   *)
(* not an object (kind "not_object": card.get raises AttributeError), or an *)
(* object whose amount is a text (kind "amount_text": amount > 0 raises    *)
(* TypeError).                                                             *)

Entry(k, n, a) == [kind |-> k, name |-> n, amount |-> a]

EntryChoices ==
    { Entry("object", "Shock", 2),
      Entry("object", "Healer{U+2019}s Hawk ", 1),
      Entry("object", "Opt", 0),
      Entry("not_object", "", 0),
      Entry("amount_text", "Duress", 0) }

RECURSIVE SeqsUpTo(_, _)
\* the sequences over S of length at most n
SeqsUpTo(S, n) ==
    IF n = 0 THEN {<<>>}
    ELSE SeqsUpTo(S, n - 1)
           \cup {Append(q, x) : q \in {t \in SeqsUpTo(S, n - 1) : Len(t) = n - 1}, x \in S}

BlockChoices ==
    {[json_ok |-> FALSE, cards |-> <<>>]}
        \cup {[json_ok |-> TRUE, cards |-> c] : c \in SeqsUpTo(EntryChoices, MaxEntries)}

\* name.replace(U+2019, "'").strip() on the names of the model; {U+2019}
\* stands for the right single quotation mark
NormalizeName(n) == IF n = "Healer{U+2019}s Hawk " THEN "Healer's Hawk" ELSE n

\* card.get("amount", 0), card.get("name", "") ... and amount > 0 raise
Raises(e) == e.kind \in {"not_object", "amount_text"}

\* build_deck is not running
BuildIdle ==
    /\ card_pool = <<>>
    /\ owned_cards = <<>>
    /\ selected_keywords = <<>>
    /\ selected_colors = <<>>
    /\ selected_format = "Any"
    /\ pc = "idle"
    /\ filtered = <<>>
    /\ idx = 1
    /\ card_counts = <<>>
    /\ suggested_cards = <<>>
    /\ deck = <<>>
    /\ colors = NoColors
    /\ pending = {}
    /\ lands = <<>>
    /\ result = <<>>

\* parse_mtga_collection(log_path): the file is missing, or it holds a log
ParseInit ==
    /\ \/ ppc = "missing" /\ log_blocks = <<>>
       \/ ppc = "scan" /\ log_blocks \in SeqsUpTo(BlockChoices, MaxBlocks)
    /\ blk = 1
    /\ ent = 1
    /\ owned_out = <<>>
    /\ found_data = FALSE
    /\ BuildIdle

\* lines 22-24: the file does not exist, return []
FileMissing ==
    /\ ppc = "missing"
    /\ ppc' = "done"
    /\ UNCHANGED <<log_blocks, blk, ent, owned_out, found_data, bvars>>

\* lines 33-40 and 47-48: the next GetPlayerCardsV3 line; json.loads raises
\* and the scan goes on, or the cards list is about to be read
ScanBlock ==
    /\ ppc = "scan"
    /\ blk <= Len(log_blocks)
    /\ IF ~log_blocks[blk].json_ok
       THEN /\ blk' = blk + 1
            /\ UNCHANGED <<ppc, ent, found_data>>
       ELSE /\ found_data' = (found_data \/ log_blocks[blk].cards # <<>>)
            /\ ent' = 1
            /\ ppc' = "cards"
            /\ UNCHANGED blk
    /\ UNCHANGED <<log_blocks, owned_out, bvars>>

\* lines 41-45 and 49-50: one entry of the cards list; an exception leaves
\* the list and is caught around the whole block, and the scan goes on with
\* the next line
ReadCard ==
    /\ ppc = "cards"
    /\ ent <= Len(log_blocks[blk].cards)
    /\ LET card == log_blocks[blk].cards[ent]
       IN  IF Raises(card)
           THEN /\ ppc' = "scan"
                /\ blk' = blk + 1
                /\ UNCHANGED <<ent, owned_out>>
           ELSE /\ owned_out' = IF card.amount > 0
                                THEN owned_out \o Repeat(NormalizeName(card.name), card.amount)
                                ELSE owned_out
                /\ ent' = ent + 1
                /\ UNCHANGED <<ppc, blk>>
    /\ UNCHANGED <<log_blocks, found_data, bvars>>

\* line 46: the cards list is read, break
EndCards ==
    /\ ppc = "cards"
    /\ ent > Len(log_blocks[blk].cards)
    /\ ppc' = "done"
    /\ UNCHANGED <<log_blocks, blk, ent, owned_out, found_data, bvars>>

\* lines 55-59: no line is left, return owned_cards
ScanEnd ==
    /\ ppc = "scan"
    /\ blk > Len(log_blocks)
    /\ ppc' = "done"
    /\ UNCHANGED <<log_blocks, blk, ent, owned_out, found_data, bvars>>

ParseNext ==
    \/ FileMissing
    \/ ScanBlock
    \/ ReadCard
    \/ EndCards
    \/ ScanEnd

SpecParse == ParseInit /\ [][ParseNext]_vars

\* the copies of name n the well-formed entries of a cards list stand for
CopiesIn(cards, n) ==
    SeqSum([i \in DOMAIN cards |->
              IF ~Raises(cards[i]) /\ cards[i].amount > 0
                 /\ NormalizeName(cards[i].name) = n
              THEN cards[i].amount ELSE 0])

ParsedNames == {NormalizeName(e.name) : e \in EntryChoices}

\* C6: the function returns, and every well-formed entry of the cards list
\* it reads (the first block that json.loads accepts), before or behind a
\* malformed one, gives its amount of copies of its name.
C6_OnlyMalformedSkipped ==
    ppc = "done" =>
        \A b \in DOMAIN log_blocks :
            (log_blocks[b].json_ok /\ \A a \in 1..(b - 1) : ~log_blocks[a].json_ok)
                => \A n \in ParsedNames :
                     /\ CountOf(owned_out, n) >= CopiesIn(log_blocks[b].cards, n)
                     /\ Len(log_blocks) = 1 =>
                          CountOf(owned_out, n) = CopiesIn(log_blocks[b].cards, n)

====
